---- MODULE Spec2Model ----
(***************************************************************************)
(* One invocation of the catalog service command tool                      *)
(* (syssvc/openmanage-service-cli/main.go): flag validation in main, the   *)
(* dispatch on -op, and the handlers with the management client calls they *)
(* make.  The management service is not part of the tool: every client     *)
(* call answers nondeterministically (an error, or a payload).             *)
(***************************************************************************)
EXTENDS Integers, Sequences, FiniteSets, TLC

VARIABLES
  op, serviceType, cluster, region, service, replicas, volSizeGB,
  cpuUnits, reserveMemMB, admin, adminPasswd, tlsEnabled, caFile, certFile,
  keyFile, replUser, replUserPasswd, serviceUUID, fileID,
  pc,          \* position of the process: "main", a handler, "poll", "done"
  exitStatus,  \* the exit status of the process, read when pc = "done"
  calls,       \* the management client calls made so far, with their results
  out,         \* what was printed so far
  volIDs,      \* deleteService: the volume ids captured from the members
  initReq,     \* createMongoDBService: the check-init request of the loop
  sec,         \* createMongoDBService: the loop counter of the wait loop
  slept,       \* createMongoDBService: the total time spent in time.Sleep
  volumes      \* the EBS volumes that exist at the cloud provider

\* the flags main() never assigns after flag.Parse
fixedFlags == <<op, cluster, service, replicas, volSizeGB, cpuUnits,
                reserveMemMB, admin, adminPasswd, tlsEnabled, caFile,
                certFile, keyFile, replUser, replUserPasswd, serviceUUID,
                fileID>>
flags == <<fixedFlags, serviceType, region>>
loopVars == <<initReq, sec, slept>>
vars == <<flags, pc, exitStatus, calls, out, volIDs, loopVars, volumes>>

----------------------------------------------------------------------------
(* Constants of the tool *)

defaultPGAdmin == "postgres"

opCreate == "create-service"
opCheckInit == "check-service-init"
opDelete == "delete-service"
opList == "list-services"
opGet == "get-service"
opListMembers == "list-members"
opGetConfig == "get-config"

CatalogService_MongoDB == "mongodb"
CatalogService_PostgreSQL == "postgresql"

\* time.Duration(10) * time.Second, in seconds
sleepSeconds == 10

\* common.DefaultRetryWaitSeconds: the step of the wait loop's counter
DefaultRetryWaitSeconds == 10

\* common.DefaultServiceWaitSeconds: the bound of the wait loop's counter
DefaultServiceWaitSeconds == 60

----------------------------------------------------------------------------
(* Bounds and input sets *)

\* the longest member list the management service answers with
MaxMembers == 2

VolumeIDs == {"vol-1", "vol-2"}

KnownOps == {opCreate, opCheckInit, opDelete, opList, opGet, opListMembers,
             opGetConfig}
OpChoices == KnownOps \cup {"", "bogus-op"}
ServiceTypeChoices == {"", "mongodb", "MongoDB", "postgresql", "redis"}
ServiceChoices == {"", "svcA"}
RegionChoices == {"", "us-west-1"}
ReplicasChoices == {-1, 0, 3}
VolSizeChoices == {-2, 0, 20}
AdminChoices == {"dbadmin", "root"}
CPUUnitsChoices == {0, 256}
MemoryMBChoices == {-1, 256}
PathChoices(p) == {"", p}
UUIDChoices == {"", "auuid"}
FileIDChoices == {"", "configfileID"}

\* the region awsec2.GetLocalEc2Region answers with when it succeeds
LocalEc2Region == "us-east-1"

----------------------------------------------------------------------------
(* Helpers *)

\* strings.ToLower on the service types of ServiceTypeChoices
ToLower(s) ==
  CASE s = "MongoDB" -> "mongodb"
    [] OTHER -> s

\* the exit status the parent sees of os.Exit(code): the low 8 bits
ExitStatus(code) == code % 256

\* os.Exit(-1)
OsExit == pc' = "done" /\ exitStatus' = ExitStatus(-1)

\* main returns
Return == pc' = "done" /\ exitStatus' = 0

\* fmt.Println / fmt.Printf: the message and the values printed with it
Println(m, d) == out' = Append(out, [msg |-> m, data |-> d])

\* the answer of one management client call
Result(e, i, m) == [err |-> e, initialized |-> i, members |-> m]
Ok == Result(FALSE, FALSE, <<>>)
Err == Result(TRUE, FALSE, <<>>)

\* one management client call and its answer
Invoke(kind, req, res) ==
  calls' = Append(calls, [kind |-> kind, req |-> req, res |-> res])

\* manage.ServiceCommonRequest of the flags
ServiceCommonRequest ==
  [Region |-> region, Cluster |-> cluster, ServiceName |-> service]

\* common.Resources of the flags
Resources ==
  [MaxCPUUnits |-> cpuUnits, ReserveCPUUnits |-> cpuUnits,
   MaxMemMB |-> reserveMemMB, ReserveMemMB |-> reserveMemMB]

\* the member lists ListServiceMember can answer with
MemberLists ==
  UNION {[1..n -> [VolumeID : VolumeIDs]] : n \in 0..MaxMembers}

\* VolumeIDsOf filling volIDs from its end
VolumeIDsOf_Reversed(members) ==
  [i \in 1..Len(members) |-> members[Len(members) + 1 - i].VolumeID]

\* volIDs[i] = member.VolumeID
VolumeIDsOf(members) == [i \in 1..Len(members) |-> members[i].VolumeID]

NoReq == [ServiceType |-> "", Service |-> [Region |-> "", Cluster |-> "",
          ServiceName |-> ""], Admin |-> "", AdminPasswd |-> ""]

----------------------------------------------------------------------------
(* Init: the state after flag.Parse.  A flag that the selected operation   *)
(* does not read keeps its default.                                        *)

Init ==
  /\ op \in OpChoices
  /\ serviceType \in ServiceTypeChoices
  /\ op \notin {opCreate, opCheckInit} => serviceType = ""
  /\ cluster = "default"
  /\ region \in RegionChoices
  /\ service \in ServiceChoices
  /\ replicas \in ReplicasChoices
  /\ volSizeGB \in VolSizeChoices
  /\ op # opCreate => replicas = 3 /\ volSizeGB = 0
  /\ cpuUnits \in CPUUnitsChoices
  /\ reserveMemMB \in MemoryMBChoices
  /\ op # opCreate => cpuUnits = 256 /\ reserveMemMB = 256
  /\ admin \in AdminChoices
  /\ op \notin {opCreate, opCheckInit} => admin = "dbadmin"
  /\ adminPasswd = "changeme"
  /\ tlsEnabled \in BOOLEAN
  /\ caFile \in PathChoices("ca.pem")
  /\ certFile \in PathChoices("cert.pem")
  /\ keyFile \in PathChoices("key.pem")
  /\ replUser = "repluser"
  /\ replUserPasswd = "replpassword"
  /\ serviceUUID \in UUIDChoices
  /\ fileID \in FileIDChoices
  /\ op # opGetConfig => serviceUUID = "" /\ fileID = ""
  /\ pc = "main"
  /\ exitStatus = 0
  /\ calls = <<>>
  /\ out = <<>>
  /\ volIDs = <<>>
  /\ initReq = NoReq
  /\ sec = 0
  /\ slept = 0
  /\ volumes = VolumeIDs

----------------------------------------------------------------------------
(* main: validation, region and TLS set-up, dispatch on -op *)

\* MainFailure with && for || in the TLS check: only the absence of all
\* three paths is refused
MainFailure_AllPathsEmpty(regionOk, tlsOk) ==
  IF op # opList /\ service = ""
    THEN "please specify the valid service name"
  ELSE IF tlsEnabled /\ (caFile = "" /\ certFile = "" /\ keyFile = "")
    THEN "tls enabled without ca file, cert file or key file"
  ELSE IF region = "" /\ ~regionOk
    THEN "please specify the region"
  ELSE IF tlsEnabled /\ ~tlsOk
    THEN "GenClientTLSConfig error"
  ELSE ""

\* MainFailure with the service name required for every operation
MainFailure_ListNeedsService(regionOk, tlsOk) ==
  IF service = ""
    THEN "please specify the valid service name"
  ELSE IF tlsEnabled /\ (caFile = "" \/ certFile = "" \/ keyFile = "")
    THEN "tls enabled without ca file, cert file or key file"
  ELSE IF region = "" /\ ~regionOk
    THEN "please specify the region"
  ELSE IF tlsEnabled /\ ~tlsOk
    THEN "GenClientTLSConfig error"
  ELSE ""

\* the first validation of main that fails, or "" when all pass
\* (regionOk, tlsOk: whether GetLocalEc2Region / GenClientTLSConfig succeed)
MainFailure(regionOk, tlsOk) ==
  IF op # opList /\ service = ""
    THEN "please specify the valid service name"
  ELSE IF tlsEnabled /\ (caFile = "" \/ certFile = "" \/ keyFile = "")
    THEN "tls enabled without ca file, cert file or key file"
  ELSE IF region = "" /\ ~regionOk
    THEN "please specify the region"
  ELSE IF tlsEnabled /\ ~tlsOk
    THEN "GenClientTLSConfig error"
  ELSE ""

\* Handler with case opDelete going to the DeleteService call at once
Handler_SkipList(o, t) ==
  CASE o = opCreate /\ t = CatalogService_MongoDB -> "createMongoDBService"
    [] o = opCreate /\ t = CatalogService_PostgreSQL -> "createPostgreSQLService"
    [] o = opCheckInit -> "checkServiceInit"
    [] o = opDelete -> "DeleteService"
    [] o = opList -> "listServices"
    [] o = opGet -> "getService"
    [] o = opListMembers -> "listServiceMembers"
    [] o = opGetConfig -> "getConfig"
    [] OTHER -> ""

\* Handler with a default case that lists the services
Handler_DefaultList(o, t) ==
  CASE o = opCreate /\ t = CatalogService_MongoDB -> "createMongoDBService"
    [] o = opCreate /\ t = CatalogService_PostgreSQL -> "createPostgreSQLService"
    [] o = opCreate -> ""
    [] o = opCheckInit -> "checkServiceInit"
    [] o = opDelete -> "deleteService"
    [] o = opGet -> "getService"
    [] o = opListMembers -> "listServiceMembers"
    [] o = opGetConfig -> "getConfig"
    [] OTHER -> "listServices"

\* Handler with case opGet calling the handler of case opDelete
Handler_GetDeletes(o, t) ==
  CASE o = opCreate /\ t = CatalogService_MongoDB -> "createMongoDBService"
    [] o = opCreate /\ t = CatalogService_PostgreSQL -> "createPostgreSQLService"
    [] o = opCheckInit -> "checkServiceInit"
    [] o = opDelete -> "deleteService"
    [] o = opList -> "listServices"
    [] o = opGet -> "deleteService"
    [] o = opListMembers -> "listServiceMembers"
    [] o = opGetConfig -> "getConfig"
    [] OTHER -> ""

\* the handler the switch on *op (and on *serviceType) selects, "" for none
Handler(o, t) ==
  CASE o = opCreate /\ t = CatalogService_MongoDB -> "createMongoDBService"
    [] o = opCreate /\ t = CatalogService_PostgreSQL -> "createPostgreSQLService"
    [] o = opCheckInit -> "checkServiceInit"
    [] o = opDelete -> "deleteService"
    [] o = opList -> "listServices"
    [] o = opGet -> "getService"
    [] o = opListMembers -> "listServiceMembers"
    [] o = opGetConfig -> "getConfig"
    [] OTHER -> ""

Main ==
  /\ pc = "main"
  /\ \E regionOk \in BOOLEAN, tlsOk \in BOOLEAN :
       LET failure == MainFailure(regionOk, tlsOk)
           t == ToLower(serviceType)
           h == Handler(op, t)
       IN IF failure # ""
            THEN /\ Println(failure, <<>>)
                 /\ OsExit
                 /\ region' = (IF failure = "GenClientTLSConfig error"
                                 /\ region = ""
                               THEN LocalEc2Region ELSE region)
                 /\ UNCHANGED serviceType
          ELSE IF h = ""
            THEN /\ Println(IF op = opCreate THEN "Invalid service type"
                                           ELSE "Invalid operation", <<>>)
                 /\ OsExit
                 /\ region' = (IF region = "" THEN LocalEc2Region ELSE region)
                 /\ serviceType' = t
          ELSE /\ pc' = h
               /\ region' = (IF region = "" THEN LocalEc2Region ELSE region)
               /\ serviceType' = t
               /\ UNCHANGED <<exitStatus, out>>
  /\ UNCHANGED <<fixedFlags, calls, volIDs, loopVars, volumes>>

----------------------------------------------------------------------------
(* createMongoDBService: validation, the create call, then the wait loop *)

CatalogCreateMongoDBRequest ==
  [Service |-> ServiceCommonRequest, Resource |-> Resources,
   Replicas |-> replicas, VolumeSizeGB |-> volSizeGB,
   Admin |-> admin, AdminPasswd |-> adminPasswd]

\* if *replicas == 0 || *volSizeGB == 0
InvalidReplicasOrVolume == replicas = 0 \/ volSizeGB = 0

\* CreateMongoDBService with the flag default of -admin in initReq
CreateMongoDBService_DefaultAdminInit ==
  /\ pc = "createMongoDBService"
  /\ IF InvalidReplicasOrVolume
       THEN /\ Println("please specify the valid replica number and volume size", <<>>)
            /\ OsExit
            /\ UNCHANGED <<calls, loopVars>>
       ELSE \E res \in {Ok, Err} :
              /\ Invoke("CatalogCreateMongoDBService",
                        CatalogCreateMongoDBRequest, res)
              /\ IF res.err
                   THEN /\ Println("create catalog mongodb service error", <<>>)
                        /\ OsExit
                        /\ UNCHANGED loopVars
                   ELSE /\ Println("The catalog service is created, wait till it gets initialized", <<>>)
                        /\ initReq' = [ServiceType |-> CatalogService_MongoDB,
                                       Service |-> ServiceCommonRequest,
                                       Admin |-> "dbadmin",
                                       AdminPasswd |-> adminPasswd]
                        /\ sec' = 0
                        /\ pc' = "poll"
                        /\ UNCHANGED <<exitStatus, slept>>
  /\ UNCHANGED <<flags, volIDs, volumes>>

CreateMongoDBService ==
  /\ pc = "createMongoDBService"
  /\ IF InvalidReplicasOrVolume
       THEN /\ Println("please specify the valid replica number and volume size", <<>>)
            /\ OsExit
            /\ UNCHANGED <<calls, loopVars>>
       ELSE \E res \in {Ok, Err} :
              /\ Invoke("CatalogCreateMongoDBService",
                        CatalogCreateMongoDBRequest, res)
              /\ IF res.err
                   THEN /\ Println("create catalog mongodb service error", <<>>)
                        /\ OsExit
                        /\ UNCHANGED loopVars
                   ELSE /\ Println("The catalog service is created, wait till it gets initialized", <<>>)
                        /\ initReq' = [ServiceType |-> CatalogService_MongoDB,
                                       Service |-> ServiceCommonRequest,
                                       Admin |-> admin,
                                       AdminPasswd |-> adminPasswd]
                        /\ sec' = 0
                        /\ pc' = "poll"
                        /\ UNCHANGED <<exitStatus, slept>>
  /\ UNCHANGED <<flags, volIDs, volumes>>

\* the answers of CatalogCheckServiceInit
CheckInitResults ==
  {Err, Result(FALSE, TRUE, <<>>), Result(FALSE, FALSE, <<>>)}

\* LoopCondition with <= for <
LoopCondition_Inclusive(s) == s <= DefaultServiceWaitSeconds

\* the loop condition: sec < common.DefaultServiceWaitSeconds
LoopCondition(s) == s < DefaultServiceWaitSeconds

\* PollTick with sec++ as the step of the counter
PollTick_StepOne ==
  /\ pc = "poll"
  /\ LoopCondition(sec)
  /\ \E res \in CheckInitResults :
       /\ Invoke("CatalogCheckServiceInit", initReq, res)
       /\ IF res.err
            THEN /\ Println("check service init error", <<>>)
                 /\ slept' = slept + sleepSeconds
                 /\ sec' = sec + 1
                 /\ UNCHANGED <<pc, exitStatus>>
          ELSE IF res.initialized
            THEN /\ Println("The catalog service is initialized", <<>>)
                 /\ Return
                 /\ UNCHANGED <<sec, slept>>
          ELSE /\ slept' = slept + sleepSeconds
               /\ sec' = sec + 1
               /\ UNCHANGED <<pc, exitStatus, out>>
  /\ UNCHANGED <<flags, volIDs, initReq, volumes>>

\* PollTick with a counter that does not step on a tick that failed
PollTick_NoStepOnError ==
  /\ pc = "poll"
  /\ LoopCondition(sec)
  /\ \E res \in CheckInitResults :
       /\ Invoke("CatalogCheckServiceInit", initReq, res)
       /\ IF res.err
            THEN /\ Println("check service init error", <<>>)
                 /\ slept' = slept + sleepSeconds
                 /\ UNCHANGED <<sec, pc, exitStatus>>
          ELSE IF res.initialized
            THEN /\ Println("The catalog service is initialized", <<>>)
                 /\ Return
                 /\ UNCHANGED <<sec, slept>>
          ELSE /\ slept' = slept + sleepSeconds
               /\ sec' = sec + DefaultRetryWaitSeconds
               /\ UNCHANGED <<pc, exitStatus, out>>
  /\ UNCHANGED <<flags, volIDs, initReq, volumes>>

\* PollTick with an os.Exit(-1) in the error branch of the check-init call
PollTick_AbortOnError ==
  /\ pc = "poll"
  /\ LoopCondition(sec)
  /\ \E res \in CheckInitResults :
       /\ Invoke("CatalogCheckServiceInit", initReq, res)
       /\ IF res.err
            THEN /\ Println("check service init error", <<>>)
                 /\ OsExit
                 /\ UNCHANGED <<sec, slept>>
          ELSE IF res.initialized
            THEN /\ Println("The catalog service is initialized", <<>>)
                 /\ Return
                 /\ UNCHANGED <<sec, slept>>
          ELSE /\ slept' = slept + sleepSeconds
               /\ sec' = sec + DefaultRetryWaitSeconds
               /\ UNCHANGED <<pc, exitStatus, out>>
  /\ UNCHANGED <<flags, volIDs, initReq, volumes>>

\* one iteration of the wait loop: the check-init call, then either the
\* return or the sleep and the step of the counter
PollTick ==
  /\ pc = "poll"
  /\ LoopCondition(sec)
  /\ \E res \in CheckInitResults :
       /\ Invoke("CatalogCheckServiceInit", initReq, res)
       /\ IF res.err
            THEN /\ Println("check service init error", <<>>)
                 /\ slept' = slept + sleepSeconds
                 /\ sec' = sec + DefaultRetryWaitSeconds
                 /\ UNCHANGED <<pc, exitStatus>>
          ELSE IF res.initialized
            THEN /\ Println("The catalog service is initialized", <<>>)
                 /\ Return
                 /\ UNCHANGED <<sec, slept>>
          ELSE /\ slept' = slept + sleepSeconds
               /\ sec' = sec + DefaultRetryWaitSeconds
               /\ UNCHANGED <<pc, exitStatus, out>>
  /\ UNCHANGED <<flags, volIDs, initReq, volumes>>

\* PollTimeout without the loop condition: the loop may give up at any tick
PollTimeout_Early ==
  /\ pc = "poll"
  /\ Println("The catalog service is not initialized after", <<>>)
  /\ OsExit
  /\ UNCHANGED <<flags, calls, volIDs, loopVars, volumes>>

\* the loop ends without a return
PollTimeout ==
  /\ pc = "poll"
  /\ ~LoopCondition(sec)
  /\ Println("The catalog service is not initialized after", <<>>)
  /\ OsExit
  /\ UNCHANGED <<flags, calls, volIDs, loopVars, volumes>>

----------------------------------------------------------------------------
(* createPostgreSQLService *)

\* CatalogCreatePostgreSQLRequest with the -admin flag as Admin
CatalogCreatePostgreSQLRequest_FlagAdmin ==
  [Service |-> ServiceCommonRequest, Resource |-> Resources,
   Replicas |-> replicas, VolumeSizeGB |-> volSizeGB,
   Admin |-> admin, AdminPasswd |-> adminPasswd,
   ReplUser |-> replUser, ReplUserPasswd |-> replUserPasswd]

CatalogCreatePostgreSQLRequest ==
  [Service |-> ServiceCommonRequest, Resource |-> Resources,
   Replicas |-> replicas, VolumeSizeGB |-> volSizeGB,
   Admin |-> defaultPGAdmin, AdminPasswd |-> adminPasswd,
   ReplUser |-> replUser, ReplUserPasswd |-> replUserPasswd]

CreatePostgreSQLService ==
  /\ pc = "createPostgreSQLService"
  /\ IF InvalidReplicasOrVolume
       THEN /\ Println("please specify the valid replica number and volume size", <<>>)
            /\ OsExit
            /\ UNCHANGED calls
       ELSE \E res \in {Ok, Err} :
              /\ Invoke("CatalogCreatePostgreSQLService",
                        CatalogCreatePostgreSQLRequest, res)
              /\ IF res.err
                   THEN /\ Println("create postgresql service error", <<>>)
                        /\ OsExit
                   ELSE /\ Println("The postgresql service is created", <<>>)
                        /\ Return
  /\ UNCHANGED <<flags, volIDs, loopVars, volumes>>

----------------------------------------------------------------------------
(* checkServiceInit, listServices, getService, getConfig *)

CheckServiceInit ==
  /\ pc = "checkServiceInit"
  /\ \E res \in CheckInitResults :
       /\ Invoke("CatalogCheckServiceInit",
                 [ServiceType |-> serviceType, Service |-> ServiceCommonRequest,
                  Admin |-> admin, AdminPasswd |-> adminPasswd], res)
       /\ Println(IF res.err THEN "check service init error"
                  ELSE IF res.initialized THEN "service initialized"
                  ELSE "service is initializing", <<>>)
       \* every path returns to main, which returns
       /\ Return
  /\ UNCHANGED <<flags, volIDs, loopVars, volumes>>

\* a handler of one call that exits on its error and prints its answer
OneCall(kind, req, errMsg, okMsg) ==
  /\ \E res \in {Ok, Err} :
       /\ Invoke(kind, req, res)
       /\ IF res.err
            THEN Println(errMsg, <<>>) /\ OsExit
            ELSE Println(okMsg, <<>>) /\ Return
  /\ UNCHANGED <<flags, volIDs, loopVars, volumes>>

ListServices ==
  /\ pc = "listServices"
  /\ OneCall("ListService",
             [Region |-> region, Cluster |-> cluster, Prefix |-> ""],
             "ListService error", "List services")

GetService ==
  /\ pc = "getService"
  /\ OneCall("GetServiceAttr", ServiceCommonRequest,
             "GetServiceAttr error", "service attributes")

GetConfig ==
  /\ pc = "getConfig"
  /\ IF serviceUUID = "" \/ fileID = ""
       THEN /\ Println("Please specify the service uuid and config file id", <<>>)
            /\ OsExit
            /\ UNCHANGED <<flags, calls, volIDs, loopVars, volumes>>
       ELSE OneCall("GetConfigFile",
                    [Region |-> region, Cluster |-> cluster,
                     ServiceUUID |-> serviceUUID, FileID |-> fileID],
                    "GetConfigFile error", "config file")

----------------------------------------------------------------------------
(* listServiceMembers, and its two callers *)

\* the answers of ListServiceMember
ListMemberResults == {Err} \cup {Result(FALSE, FALSE, m) : m \in MemberLists}

ListMemberRequest == [Service |-> ServiceCommonRequest]

\* case opListMembers of main: list the members and print them
ListServiceMembers ==
  /\ pc = "listServiceMembers"
  /\ \E res \in ListMemberResults :
       /\ Invoke("ListServiceMember", ListMemberRequest, res)
       /\ IF res.err
            THEN Println("ListServiceMember error", <<>>) /\ OsExit
            ELSE Println("List members", VolumeIDsOf(res.members)) /\ Return
  /\ UNCHANGED <<flags, volIDs, loopVars, volumes>>

\* DeleteListMembers without the os.Exit(-1) of listServiceMembers
DeleteListMembers_NoAbort ==
  /\ pc = "deleteService"
  /\ \E res \in ListMemberResults :
       /\ Invoke("ListServiceMember", ListMemberRequest, res)
       /\ IF res.err
            THEN /\ Println("ListServiceMember error", <<>>)
                 /\ volIDs' = <<>>
                 /\ pc' = "DeleteService"
                 /\ UNCHANGED exitStatus
            ELSE /\ volIDs' = VolumeIDsOf(res.members)
                 /\ pc' = "DeleteService"
                 /\ UNCHANGED <<exitStatus, out>>
  /\ UNCHANGED <<flags, loopVars, volumes>>

\* deleteService up to the DeleteService call: list the members, keep
\* their volume ids
DeleteListMembers ==
  /\ pc = "deleteService"
  /\ \E res \in ListMemberResults :
       /\ Invoke("ListServiceMember", ListMemberRequest, res)
       /\ IF res.err
            THEN /\ Println("ListServiceMember error", <<>>)
                 /\ OsExit
                 /\ UNCHANGED volIDs
            ELSE /\ volIDs' = VolumeIDsOf(res.members)
                 /\ pc' = "DeleteService"
                 /\ UNCHANGED <<exitStatus, out>>
  /\ UNCHANGED <<flags, loopVars, volumes>>

\* DeleteService followed by the removal of the members' volumes
DeleteService_RemovingVolumes ==
  /\ pc = "DeleteService"
  /\ \E res \in {Ok, Err} :
       /\ Invoke("DeleteService", ServiceCommonRequest, res)
       /\ IF res.err
            THEN Println("DeleteService error", <<>>) /\ OsExit /\ UNCHANGED volumes
            ELSE /\ Println("Service deleted", volIDs)
                 /\ volumes' = volumes \ {volIDs[n] : n \in 1..Len(volIDs)}
                 /\ Return
  /\ UNCHANGED <<flags, volIDs, loopVars>>

\* deleteService from the DeleteService call on
DeleteService ==
  /\ pc = "DeleteService"
  /\ \E res \in {Ok, Err} :
       /\ Invoke("DeleteService", ServiceCommonRequest, res)
       /\ IF res.err
            THEN Println("DeleteService error", <<>>) /\ OsExit
            ELSE /\ Println("Service deleted, please manually delete the EBS volumes", volIDs)
                 /\ Return
  /\ UNCHANGED <<flags, volIDs, loopVars, volumes>>

----------------------------------------------------------------------------

Next ==
  \/ Main
  \/ CreateMongoDBService
  \/ PollTick
  \/ PollTimeout
  \/ CreatePostgreSQLService
  \/ CheckServiceInit
  \/ ListServices
  \/ GetService
  \/ GetConfig
  \/ ListServiceMembers
  \/ DeleteListMembers
  \/ DeleteService

Spec == Init /\ [][Next]_vars

\* the process is scheduled until it ends, and every client call returns
FairSpec == Spec /\ WF_vars(Next)

----------------------------------------------------------------------------
(* Vocabulary of the properties *)

\* the largest k of a check-init stub "not initialized for the first k ticks"
MaxStubK == 8

\* the positions in calls of the calls of one kind
CallsOf(kind) == {i \in 1..Len(calls) : calls[i].kind = kind}

CreateKinds == {"CatalogCreateMongoDBService", "CatalogCreatePostgreSQLService"}

\* some printed line has the message m
Printed(m) == \E i \in 1..Len(out) : out[i].msg = m

\* the volume id v is part of some printed line
Reported(v) == \E i \in 1..Len(out) : \E j \in 1..Len(out[i].data) : out[i].data[j] = v

\* the run ended with a failure status
Failed == pc = "done" /\ exitStatus # 0

\* the wait loop was entered: the create call of createMongoDBService succeeded
PollerEntered ==
  /\ Len(calls) >= 1
  /\ calls[1].kind = "CatalogCreateMongoDBService"
  /\ ~calls[1].res.err

\* the number of check-init calls the wait loop has made
Ticks == Len(calls) - 1

\* tick i (from 1) of the wait loop answered "initialized"
AnsweredInitialized(i) == ~calls[i + 1].res.err /\ calls[i + 1].res.initialized

\* the answers of the wait loop so far are those of the stub that answers
\* "not initialized" on its first k ticks and "initialized" from then on
FollowsStub(k) ==
  \A i \in 1..Ticks :
    ~calls[i + 1].res.err /\ (calls[i + 1].res.initialized <=> i > k)

\* how many of -ca-file, -cert-file, -key-file are set
PathsSet ==
  (IF caFile = "" THEN 0 ELSE 1) + (IF certFile = "" THEN 0 ELSE 1)
    + (IF keyFile = "" THEN 0 ELSE 1)

TLSMessage == "tls enabled without ca file, cert file or key file"

----------------------------------------------------------------------------
(* Properties *)

\* C1: a DeleteService call is only made after a ListServiceMember call for
\* the same region, cluster and service name has returned without error.
C1_ListBeforeDelete ==
  \A i \in CallsOf("DeleteService") :
    \E j \in 1..(i - 1) :
      /\ calls[j].kind = "ListServiceMember"
      /\ ~calls[j].res.err
      /\ calls[j].req.Service = calls[i].req

C1_Witness ==
  /\ op = opDelete
  /\ CallsOf("DeleteService") # {}
  /\ calls[1].res.members # <<>>

\* C2: when ListServiceMember succeeds and DeleteService fails, the finished
\* run has failed and has printed every captured volume id.
C2_VolumesReportedOnDeleteError ==
  (/\ pc = "done"
   /\ op = opDelete
   /\ \E j \in CallsOf("ListServiceMember") : ~calls[j].res.err
   /\ \E i \in CallsOf("DeleteService") : calls[i].res.err)
  => /\ exitStatus # 0
     /\ \A n \in 1..Len(volIDs) : Reported(volIDs[n])

\* C3: when the ListServiceMember call of a delete run fails, the run ends
\* with a failure status and makes no DeleteService call.
C3_ListErrorAborts ==
  (op = opDelete /\ \E j \in CallsOf("ListServiceMember") : calls[j].res.err)
  => Failed /\ CallsOf("DeleteService") = {}

C3_Witness ==
  /\ op = opDelete
  /\ pc = "done"
  /\ Len(calls) = 1
  /\ calls[1].kind = "ListServiceMember"
  /\ calls[1].res.err

\* C4: a delete run makes one ListServiceMember call, then at most one
\* DeleteService call, and no other call; the volumes stay as they were.
C4_DeleteCallsOnly ==
  op = opDelete =>
    /\ Len(calls) <= 2
    /\ Len(calls) >= 1 => calls[1].kind = "ListServiceMember"
    /\ Len(calls) = 2 => calls[2].kind = "DeleteService"
    /\ pc = "DeleteService" => Len(calls) = 1
    /\ volumes = VolumeIDs

C4_Witness ==
  /\ op = opDelete
  /\ pc = "done"
  /\ exitStatus = 0
  /\ Len(calls) = 2
  /\ volIDs # <<>>

\* C5: with a check-init stub that answers "not initialized" on its first k
\* ticks and "initialized" from then on, the wait loop ends with success iff
\* k * interval < wait budget, and otherwise ends by reporting the timeout.
C5_StubOutcome ==
  (pc = "done" /\ PollerEntered) =>
    \A k \in 0..MaxStubK :
      FollowsStub(k) =>
        /\ exitStatus = 0 <=> k * DefaultRetryWaitSeconds < DefaultServiceWaitSeconds
        /\ exitStatus = 0 => Printed("The catalog service is initialized")
        /\ exitStatus # 0 => Printed("The catalog service is not initialized after")

C5_Witness ==
  /\ pc = "done"
  /\ PollerEntered
  /\ FollowsStub(5)
  /\ Ticks = 6
  /\ exitStatus = 0

\* C6: an error of a check-init tick neither ends the wait loop nor resets
\* its counter: the counter is the step times the ticks made, and the loop
\* ends where it would if the failed ticks had answered "not initialized" -
\* with success on the first tick that answers "initialized", with the
\* timeout once the counter has reached the budget.
C6_ErrorsAreTransient ==
  PollerEntered =>
    /\ \A i \in 1..(Ticks - 1) : ~AnsweredInitialized(i)
    /\ pc = "poll" =>
         /\ sec = Ticks * DefaultRetryWaitSeconds
         /\ \A i \in 1..Ticks : ~AnsweredInitialized(i)
    /\ pc = "done" =>
         /\ Ticks >= 1
         /\ exitStatus = 0 <=> AnsweredInitialized(Ticks)
         /\ exitStatus # 0 =>
              /\ Ticks * DefaultRetryWaitSeconds >= DefaultServiceWaitSeconds
              /\ (Ticks - 1) * DefaultRetryWaitSeconds < DefaultServiceWaitSeconds
              /\ Printed("The catalog service is not initialized after")

\* errors on ticks 2 and 4, "initialized" on tick 6
C6_Witness ==
  /\ pc = "done"
  /\ PollerEntered
  /\ Ticks = 6
  /\ calls[3].res.err
  /\ calls[5].res.err
  /\ AnsweredInitialized(6)
  /\ exitStatus = 0

\* C7: a create run with replicas <= 0 or volume size <= 0 makes no create
\* call and ends with a failure status.
C7_NonPositiveRejected ==
  (op = opCreate /\ (replicas <= 0 \/ volSizeGB <= 0)) =>
    /\ \A i \in 1..Len(calls) : calls[i].kind \notin CreateKinds
    /\ pc = "done" => exitStatus # 0

\* C8 as stated: whatever -tls-enabled is, a run with one or two of the
\* three paths set fails before any call, and a run with none or all three
\* of them set is not rejected for its TLS configuration.
C8_PartialPathsRejected ==
  /\ PathsSet \in {1, 2} =>
       /\ calls = <<>>
       /\ pc \in {"main", "done"}
       /\ pc = "done" => exitStatus # 0
  /\ PathsSet \in {0, 3} => ~Printed(TLSMessage)

\* C8 as amended: the paths are looked at only when -tls-enabled is set.
\* With it set, a run with fewer than three of the paths set (none, one or
\* two) fails before any call, for its TLS configuration unless the service
\* name was missing; a run with all three set, or without -tls-enabled, is
\* never rejected for its TLS configuration.
C8_TLSEnabledNeedsAllPaths ==
  /\ (tlsEnabled /\ PathsSet < 3) =>
       /\ calls = <<>>
       /\ pc \in {"main", "done"}
       /\ pc = "done" => exitStatus # 0
       /\ (pc = "done" /\ (op = opList \/ service # "")) => Printed(TLSMessage)
  /\ (~tlsEnabled \/ PathsSet = 3) => ~Printed(TLSMessage)

C8_Witness ==
  /\ pc = "done"
  /\ tlsEnabled
  /\ PathsSet = 2
  /\ Printed(TLSMessage)
  /\ exitStatus # 0

\* C9: a finished run in which the call of a one-call operation (or the
\* create call) returned an error has a nonzero exit status.
C9_CallErrorIsFatal ==
  (/\ pc = "done"
   /\ \E i \in 1..Len(calls) :
        /\ calls[i].res.err
        /\ ~(op = opCreate /\ calls[i].kind = "CatalogCheckServiceInit"))
  => exitStatus # 0

\* C10: a run whose -op is none of the seven operations makes no call and
\* ends with a nonzero exit status.
C10_UnknownOperationFails ==
  op \notin KnownOps =>
    /\ calls = <<>>
    /\ pc \in {"main", "done"}
    /\ pc = "done" => exitStatus # 0

C10_Witness ==
  /\ op = "bogus-op"
  /\ service # ""
  /\ pc = "done"
  /\ Printed("Invalid operation")
  /\ exitStatus = 255

----------------------------------------------------------------------------
(* Vocabulary of the properties on the wait loop, the requests and the     *)
(* dispatch                                                                *)

InitializedMessage == "The catalog service is initialized"
TimeoutMessage == "The catalog service is not initialized after"
ServiceNameMessage == "please specify the valid service name"

\* ceil(budget / step): the ticks the wait loop can make
MaxTicks ==
  (DefaultServiceWaitSeconds + DefaultRetryWaitSeconds - 1)
    \div DefaultRetryWaitSeconds

\* the messages of the checks made before any call
ValidationMessages ==
  {ServiceNameMessage, TLSMessage, "please specify the region",
   "GenClientTLSConfig error", "Invalid service type", "Invalid operation",
   "please specify the valid replica number and volume size",
   "Please specify the service uuid and config file id"}

ReadOnlyOps == {opCheckInit, opList, opGet, opListMembers, opGetConfig}

\* the client call of a read-only operation
KindOf(o) ==
  CASE o = opCheckInit -> "CatalogCheckServiceInit"
    [] o = opList -> "ListService"
    [] o = opGet -> "GetServiceAttr"
    [] o = opListMembers -> "ListServiceMember"
    [] o = opGetConfig -> "GetConfigFile"

----------------------------------------------------------------------------
(* Properties, continued *)

\* C11: a finished run whose create call succeeded, of either service type,
\* reports success only after a check-init call has answered "initialized".
C11_CreateEntersPoller ==
  (/\ pc = "done"
   /\ exitStatus = 0
   /\ \E i \in 1..Len(calls) : calls[i].kind \in CreateKinds /\ ~calls[i].res.err)
  => \E j \in CallsOf("CatalogCheckServiceInit") :
       ~calls[j].res.err /\ calls[j].res.initialized

\* C12: the PostgreSQL create request has Admin "postgres" whatever -admin
\* is, the MongoDB create request has Admin = -admin; region (as main
\* resolved it), cluster, service name, replicas, volume size and admin
\* password of both are those of the flags.
C12_CreateRequestFields ==
  \A i \in 1..Len(calls) :
    calls[i].kind \in CreateKinds =>
      /\ calls[i].kind = "CatalogCreatePostgreSQLService" =>
           calls[i].req.Admin = "postgres"
      /\ calls[i].kind = "CatalogCreateMongoDBService" =>
           calls[i].req.Admin = admin
      /\ calls[i].req.Service.Region = region
      /\ calls[i].req.Service.Cluster = cluster
      /\ calls[i].req.Service.ServiceName = service
      /\ calls[i].req.Replicas = replicas
      /\ calls[i].req.VolumeSizeGB = volSizeGB
      /\ calls[i].req.AdminPasswd = adminPasswd

C12_Witness ==
  /\ Len(calls) = 1
  /\ calls[1].kind = "CatalogCreatePostgreSQLService"
  /\ admin = "root"
  /\ calls[1].req.Admin = "postgres"
  /\ calls[1].req.Replicas = 3
  /\ calls[1].req.VolumeSizeGB = 20

\* C13: the timeout is reported only with the counter at or past the budget
\* and no check-init answer "initialized", and it ends the run with a
\* nonzero status; once the loop has reported "initialized" or the timeout,
\* no further call is made.
C13_TimedOutIsTerminal ==
  /\ [](Printed(TimeoutMessage) =>
          /\ sec >= DefaultServiceWaitSeconds
          /\ \A i \in 1..Ticks : ~AnsweredInitialized(i)
          /\ pc = "done"
          /\ exitStatus # 0)
  /\ [][(Printed(TimeoutMessage) \/ Printed(InitializedMessage))
          => calls' = calls /\ pc' = "done"]_vars

C13_Witness ==
  /\ Printed(TimeoutMessage)
  /\ pc = "done"
  /\ Ticks = MaxTicks
  /\ calls[3].res.err

C15_PollerTerminates ==
  /\ [](PollerEntered => Ticks <= MaxTicks)
  /\ (PollerEntered ~>
        (pc = "done" /\ (Printed(InitializedMessage) \/ Printed(TimeoutMessage))))

C15_Witness ==
  /\ pc = "done"
  /\ PollerEntered
  /\ Ticks = MaxTicks
  /\ calls[2].res.err
  /\ ~calls[3].res.err
  /\ AnsweredInitialized(MaxTicks)

\* C16: every check-init call of the wait loop has the region, cluster,
\* service name, admin and admin password of the create request before it.
C16_CheckInitRequestOfCreate ==
  PollerEntered =>
    \A i \in 2..Len(calls) :
      /\ calls[i].kind = "CatalogCheckServiceInit"
      /\ calls[i].req.Service = calls[1].req.Service
      /\ calls[i].req.Admin = calls[1].req.Admin
      /\ calls[i].req.AdminPasswd = calls[1].req.AdminPasswd

C16_Witness ==
  /\ PollerEntered
  /\ Ticks = 3
  /\ admin = "root"
  /\ calls[4].req.Admin = "root"
  /\ calls[4].req.Service.Region = LocalEc2Region

C18_CallsOfTheHandlerOnly ==
  /\ \A i \in 1..Len(calls) :
       /\ calls[i].kind \in CreateKinds => op = opCreate
       /\ calls[i].kind = "CatalogCreateMongoDBService" =>
            serviceType = CatalogService_MongoDB
       /\ calls[i].kind = "CatalogCreatePostgreSQLService" =>
            serviceType = CatalogService_PostgreSQL
       /\ calls[i].kind = "DeleteService" => op = opDelete
  /\ op \in ReadOnlyOps =>
       /\ Len(calls) <= 1
       /\ \A i \in 1..Len(calls) : calls[i].kind = KindOf(op)
       /\ (pc = "done" /\ \A m \in ValidationMessages : ~Printed(m)) =>
            Len(calls) = 1

C18_Witness ==
  /\ op = opGetConfig
  /\ pc = "done"
  /\ Len(calls) = 1
  /\ calls[1].kind = "GetConfigFile"
  /\ exitStatus = 0

\* C19: a delete run whose two calls succeed prints, with its last line, one
\* volume id per member of the ListServiceMember answer, in the order of the
\* members.
C19_ReportedVolumesAreTheMembers ==
  (op = opDelete /\ pc = "done" /\ exitStatus = 0) =>
    /\ Len(calls) = 2
    /\ LET members == calls[1].res.members
           reported == out[Len(out)].data
       IN /\ Len(reported) = Len(members)
          /\ \A i \in 1..Len(members) : reported[i] = members[i].VolumeID

C19_Witness ==
  /\ op = opDelete
  /\ pc = "done"
  /\ exitStatus = 0
  /\ calls[1].res.members = <<[VolumeID |-> "vol-2"], [VolumeID |-> "vol-1"]>>
  /\ out[Len(out)].data = <<"vol-2", "vol-1">>

\* C20: the resources of every create request have a reservation that does
\* not exceed the maximum, and four positive values.
C20_ResourcesPositive ==
  \A i \in 1..Len(calls) :
    calls[i].kind \in CreateKinds =>
      LET r == calls[i].req.Resource
      IN /\ r.ReserveCPUUnits <= r.MaxCPUUnits
         /\ r.ReserveMemMB <= r.MaxMemMB
         /\ r.MaxCPUUnits > 0 /\ r.ReserveCPUUnits > 0
         /\ r.MaxMemMB > 0 /\ r.ReserveMemMB > 0

====
